---------------------------- MODULE Spec2Model ----------------------------
(***************************************************************************)
(* State-machine model of the streaming chat client of src/Script.js:      *)
(* sendMessage, abortStream, the compose/clear event handlers, chat        *)
(* history with its localStorage mirror, and the chat box.                 *)
(*                                                                         *)
(* Text is modelled as a sequence of tokens.  A token is one of the        *)
(* protocol atoms of the response body (newline, the "data:" marker, one   *)
(* blank, the [DONE] sentinel, a JSON value) or an atom of plain text.     *)
(* String concatenation is \o.  Timestamps are left out.                   *)
(*                                                                         *)
(* Scheduling follows the browser's event loop: a click, a key press or a  *)
(* network event is one task; sendMessage runs from one await to the next  *)
(* inside the task that settles the awaited promise.  AbortController      *)
(* abort() rejects the pending fetch()/read() promise synchronously, and   *)
(* the continuation of the await runs in the microtask checkpoint that     *)
(* ends the aborting task, before any other task.                          *)
(***************************************************************************)
EXTENDS Naturals, Sequences, FiniteSets

\* ------------------------------------------------------------------ bounds
MaxSends == 2
MaxEmits == 2

Sends == 1..MaxSends

\* ------------------------------------------------------------------ tokens
NL     == "NL"
Marker == "data:"
SP     == " "
DONE   == "[DONE]"

\* ---------------------------------------------------------- pure helpers

\* String.prototype.trim on a token sequence: blanks off both ends.
RECURSIVE TrimLeft(_)
TrimLeft(s) ==
  IF s # <<>> /\ Head(s) = SP THEN TrimLeft(Tail(s)) ELSE s

RECURSIVE TrimRight(_)
TrimRight(s) ==
  IF s # <<>> /\ s[Len(s)] = SP THEN TrimRight(SubSeq(s, 1, Len(s) - 1)) ELSE s

Trim(s) == TrimRight(TrimLeft(s))

\* buffer.split(/\n\n/): leftmost, non-overlapping; always at least one part.
RECURSIVE SplitBlocks(_, _)
SplitBlocks(s, cur) ==
  IF s = <<>> THEN <<cur>>
  ELSE IF Len(s) >= 2 /\ s[1] = NL /\ s[2] = NL
       THEN <<cur>> \o SplitBlocks(SubSeq(s, 3, Len(s)), <<>>)
       ELSE SplitBlocks(Tail(s), Append(cur, Head(s)))

\* part.split(/\n/)
RECURSIVE SplitLines(_, _)
SplitLines(s, cur) ==
  IF s = <<>> THEN <<cur>>
  ELSE IF Head(s) = NL
       THEN <<cur>> \o SplitLines(Tail(s), <<>>)
       ELSE SplitLines(Tail(s), Append(cur, Head(s)))

\* l.replace(/^data:\s?/, '')
StripMarker(l) ==
  IF l # <<>> /\ Head(l) = Marker
  THEN IF Len(l) >= 2 /\ l[2] = SP THEN SubSeq(l, 3, Len(l)) ELSE Tail(l)
  ELSE l

\* The JSON values of the model and what JSON.parse makes of each:
\* isNull for the literal null, else an object with the three fields the
\* code reads (<<>> stands for an absent field and for the empty string:
\* both are falsy); hasError tells the two apart for the error field.
JsonTokens ==
  {"{chunk:a}", "{partial:b}", "{error:boom}", "{error:}",
   "{chunk:a,partial:b}", "null"}

JsonValue(t) ==
  [isNull  |-> (t = "null"),
   hasError |-> (t \in {"{error:boom}", "{error:}"}),
   error   |-> IF t = "{error:boom}" THEN <<"boom">> ELSE <<>>,
   chunk   |-> IF t \in {"{chunk:a}", "{chunk:a,partial:b}"} THEN <<"a">>
               ELSE <<>>,
   partial |-> IF t \in {"{partial:b}", "{chunk:a,partial:b}"} THEN <<"b">>
               ELSE <<>>]

\* JSON.parse(line) succeeds: one JSON value, blanks around it allowed.
Parses(line) == Len(Trim(line)) = 1 /\ Trim(line)[1] \in JsonTokens

Truthy(str) == str # <<>>

\* accumulated += text
Accumulate(acc, d) == acc \o d

\* Mutant: the text after the last separator is dropped, not kept.
RemainderDropped(parts) == <<>>

\* buffer = parts.pop(): the text after the last blank-line separator stays
\* in the buffer for the next read.
Remainder(parts) == parts[Len(parts)]

CompleteParts(parts) == SubSeq(parts, 1, Len(parts) - 1)

\* ------------------------------------------------------------ chat box
\* An element of the chat box: its class (user, bot, system), the text it
\* shows, and owner, the sendMessage call that created it (0: rendered from
\* history or the welcome message).
Element(type, text, owner) == [type |-> type, text |-> text, owner |-> owner]

Welcome == <<Element("system", <<"welcome">>, 0)>>

Message(type, content) == [type |-> type, content |-> content]

\* renderChatHistory
RenderChatHistory(h) ==
  IF h = <<>> THEN Welcome
  ELSE [i \in 1..Len(h) |-> Element(h[i].type, h[i].content, 0)]

BotPositions(box) == {i \in 1..Len(box) : box[i].type = "bot"}

LastBot(box) == CHOOSE i \in BotPositions(box) : \A j \in BotPositions(box) : j <= i

\* updateLastBotContent: rewrite the last bot message of the chat box, or
\* add one when there is none.
UpdateLastBotContent(box, text, s) ==
  IF BotPositions(box) = {} THEN Append(box, Element("bot", text, s))
  ELSE [box EXCEPT ![LastBot(box)].text = text]

\* ------------------------------------------------- the body of the read loop
\* The state of one pass over the complete parts of a read: the accumulated
\* text, the deltas forwarded so far, the chat box, and how the pass ended
\* (run: fell through; done: [DONE]; error: an error field, with msg;
\* throw: an exception other than JSON.parse's).
Forward(st, d) ==
  [st EXCEPT !.acc    = Accumulate(st.acc, d),
             !.deltas = Append(st.deltas, d),
             !.box    = UpdateLastBotContent(st.box, Accumulate(st.acc, d), st.id)]

\* Mutant: only the chunk field is read.
TextOfChunkOnly(st, obj) ==
  IF Truthy(obj.chunk) THEN Forward(st, obj.chunk) ELSE st

\* Mutant: chunk and partial are both appended when both are there.
TextOfBoth(st, obj) ==
  IF Truthy(obj.chunk) /\ Truthy(obj.partial)
  THEN Forward(Forward(st, obj.chunk), obj.partial)
  ELSE IF Truthy(obj.chunk) THEN Forward(st, obj.chunk)
  ELSE IF Truthy(obj.partial) THEN Forward(st, obj.partial)
  ELSE st

\* The chunk/partial branch of an object without a truthy error field.
TextOf(st, obj) ==
  IF Truthy(obj.chunk) THEN Forward(st, obj.chunk)
  ELSE IF Truthy(obj.partial) THEN Forward(st, obj.partial)
  ELSE st

\* Mutant: the branches of the loop body do not return.
ProcessLineNoReturn(st, line) ==
  IF line = <<>> THEN st
  ELSE IF Trim(line) = <<DONE>> THEN [st EXCEPT !.status = "done"]
  ELSE IF ~Parses(line) THEN Forward(st, line)
  ELSE LET obj == JsonValue(Trim(line)[1]) IN
       IF obj.isNull THEN [st EXCEPT !.status = "throw"]
       ELSE IF Truthy(obj.error)
            THEN [st EXCEPT !.status = "error", !.msg = obj.error]
            ELSE TextOf(st, obj)

\* One iteration of "for (const line of lines)".
ProcessLine(st, line) ==
  IF st.status # "run" THEN st
  ELSE IF line = <<>> THEN st
  ELSE IF Trim(line) = <<DONE>> THEN [st EXCEPT !.status = "done"]
  ELSE IF ~Parses(line) THEN Forward(st, line)
  ELSE LET obj == JsonValue(Trim(line)[1]) IN
       IF obj.isNull THEN [st EXCEPT !.status = "throw"]
       ELSE IF Truthy(obj.error)
            THEN [st EXCEPT !.status = "error", !.msg = obj.error]
            ELSE TextOf(st, obj)

RECURSIVE ProcessLines(_, _)
ProcessLines(st, lines) ==
  IF lines = <<>> THEN st
  ELSE ProcessLines(ProcessLine(st, Head(lines)), Tail(lines))

\* part.split(/\n/).map(l => l.replace(/^data:\s?/, ''))
LinesOf(part) ==
  LET ls == SplitLines(part, <<>>) IN [i \in 1..Len(ls) |-> StripMarker(ls[i])]

RECURSIVE ProcessParts(_, _)
ProcessParts(st, parts) ==
  IF parts = <<>> THEN st
  ELSE ProcessParts(ProcessLines(st, LinesOf(Head(parts))), Tail(parts))

\* One read that returned value: the new buffer and the pass over the parts.
ProcessChunk(buf, st, value) ==
  LET parts == SplitBlocks(buf \o value, <<>>) IN
  [buffer |-> Remainder(parts), st |-> ProcessParts(st, CompleteParts(parts))]

PassState(acc, dl, box, s) ==
  [acc |-> acc, deltas |-> dl, box |-> box, id |-> s, status |-> "run", msg |-> <<>>]

\* ------------------------------------------------------------------ state
VARIABLES
  streaming,         \* let streaming
  streamController,  \* let streamController: the call whose controller it holds, 0 for null
  chatHistory,       \* let chatHistory
  stored,            \* localStorage item palms_history_<sessionId>
  chatBox,           \* the children of #chat-box
  nCalls,            \* sendMessage calls made so far; call s is the s-th
  pc,                \* where call s stands
  input,             \* userInput.value when call s was made
  accumulated,       \* let accumulated of call s
  buffer,            \* let buffer of call s
  conn,              \* the connection of call s: none, open, closed, aborted, failed
  wire,              \* body text the server has sent that no read has returned yet
  emitted,           \* how many pieces of body the server has sent so far
  requests,          \* POST /chat requests issued by call s
  delivered,         \* all the text the reads of call s have returned, in order
  deltas,            \* the texts call s has passed to updateLastBotContent's display
  alerts,            \* the alert() messages of call s
  appended,          \* the bot messages call s has pushed to chatHistory
  cancelAt           \* pc of call s when a Cancel click aborted it, "" if none did

vars == <<streaming, streamController, chatHistory, stored, chatBox, nCalls, pc,
          input, accumulated, buffer, conn, wire, emitted, requests, delivered,
          deltas, alerts, appended, cancelAt>>

\* Positions of a call.  idle: not made yet.  noop: returned on empty input.
\* returned: returned before a later call was made.
\* fetch, errbody, read: suspended at await fetch(), await res.json(),
\* await reader.read().  The *_aborted positions: the awaited promise has
\* been rejected by abort() and the continuation is the pending microtask.
Suspended == {"fetch", "errbody", "read"}
Pending   == {"fetch_aborted", "errbody_aborted", "read_aborted"}
Terminal  == {"done", "eof", "cancelled", "error_status", "error_field",
              "error_transport", "error_thrown"}

InFlight(s) == pc[s] \in Suspended \cup Pending

\* Mutant: tasks run although the continuation of an aborted await is pending.
TasksRunBeforeContinuation == TRUE

\* No microtask is pending: the event loop may start the next task.
Quiescent == \A s \in Sends : pc[s] \notin Pending

\* What the user may have typed.
Inputs == {<<>>, <<SP>>, <<SP, "q", SP>>}

\* What the server may send in one piece: complete blocks, each closed by a
\* blank line, and fragments that leave the last block open.
Block(b) == b \o <<NL, NL>>

Emits ==
  { Block(<<Marker, SP, "{chunk:a}">>),
    Block(<<Marker, SP, "{partial:b}">>),
    Block(<<Marker, SP, "x">>),
    Block(<<Marker, SP, SP>>),
    Block(<<Marker, SP, "{error:boom}">>),
    Block(<<Marker, SP, "{error:}">>),
    Block(<<Marker, SP, "null">>),
    Block(<<Marker, SP, "{chunk:a,partial:b}">>),
    Block(<<"{chunk:a}", NL, Marker, "{partial:b}">>),
    Block(<<Marker, SP, DONE>>),
    <<Marker, SP, "{chunk:a}">>,
    <<Marker, SP, DONE, NL>>,
    <<NL>> }

\* The detail of a non-success response: its body is no JSON, or JSON
\* without a detail, or JSON with one.
ErrorBodies == {"nojson", "nodetail", "detail"}

ErrorDetail(b) == IF b = "detail" THEN <<"detail">> ELSE <<>>

Init ==
  /\ streaming = FALSE
  /\ streamController = 0
  /\ chatHistory = <<>>
  /\ stored = chatHistory
  /\ chatBox = RenderChatHistory(chatHistory)
  /\ nCalls = 0
  /\ pc = [s \in Sends |-> "idle"]
  /\ input = [s \in Sends |-> <<>>]
  /\ accumulated = [s \in Sends |-> <<>>]
  /\ buffer = [s \in Sends |-> <<>>]
  /\ conn = [s \in Sends |-> "none"]
  /\ wire = [s \in Sends |-> <<>>]
  /\ emitted = 0
  /\ requests = [s \in Sends |-> 0]
  /\ delivered = [s \in Sends |-> <<>>]
  /\ deltas = [s \in Sends |-> <<>>]
  /\ alerts = [s \in Sends |-> <<>>]
  /\ appended = [s \in Sends |-> <<>>]
  /\ cancelAt = [s \in Sends |-> ""]

\* ---------------------------------------------------------------- actions

\* Mutant: the handlers call sendMessage whatever streaming is.
SendAlwaysAllowed == TRUE

\* The guard of the send button's click handler and of the Enter key's.
SendAllowed == ~streaming

\* A call that has returned: its local variables are gone, and what the
\* model recorded about it is dropped when the next call is made (its
\* position becomes "returned").
Returned(s) == pc[s] \in Terminal \cup {"noop", "returned"}

Forget(f, s, init) == [i \in Sends |-> IF i < s /\ Returned(i) THEN init ELSE f[i]]

\* Mutant: the input is not trimmed.
InputTextUntrimmed(value) == value

\* const text = userInput.value.trim()
InputText(value) == Trim(value)

\* Mutant: the user message is shown but not pushed to chatHistory.
SendMessageUnsaved(s, value) ==
  LET text == InputText(value) IN
  /\ nCalls' = s
  /\ input' = [Forget(input, s, <<>>) EXCEPT ![s] = value]
  /\ IF text = <<>>
     THEN /\ pc' = [Forget(pc, s, "returned") EXCEPT ![s] = "noop"]
          /\ conn' = Forget(conn, s, "none")
          /\ requests' = Forget(requests, s, 0)
          /\ UNCHANGED <<streaming, streamController, chatHistory, stored, chatBox>>
     ELSE /\ chatHistory' = chatHistory
          /\ stored' = stored
          /\ chatBox' = Append(Append(chatBox, Element("user", text, s)),
                               Element("bot", <<>>, s))
          /\ streamController' = s
          /\ streaming' = TRUE
          /\ requests' = [Forget(requests, s, 0) EXCEPT ![s] = @ + 1]
          /\ conn' = [Forget(conn, s, "none") EXCEPT ![s] = "open"]
          /\ pc' = [Forget(pc, s, "returned") EXCEPT ![s] = "fetch"]
  /\ accumulated' = Forget(accumulated, s, <<>>)
  /\ buffer' = Forget(buffer, s, <<>>)
  /\ wire' = Forget(wire, s, <<>>)
  /\ delivered' = Forget(delivered, s, <<>>)
  /\ deltas' = Forget(deltas, s, <<>>)
  /\ appended' = Forget(appended, s, <<>>)
  /\ alerts' = Forget(alerts, s, <<>>)
  /\ cancelAt' = Forget(cancelAt, s, "")
  /\ UNCHANGED emitted

\* sendMessage, from the call to its first await (fetch).
SendMessage(s, value) ==
  LET text == InputText(value) IN
  /\ nCalls' = s
  /\ input' = [Forget(input, s, <<>>) EXCEPT ![s] = value]
  /\ IF text = <<>>
     THEN /\ pc' = [Forget(pc, s, "returned") EXCEPT ![s] = "noop"]
          /\ conn' = Forget(conn, s, "none")
          /\ requests' = Forget(requests, s, 0)
          /\ UNCHANGED <<streaming, streamController, chatHistory, stored, chatBox>>
     ELSE /\ chatHistory' = Append(chatHistory, Message("user", text))
          /\ stored' = chatHistory'
          /\ chatBox' = Append(Append(chatBox, Element("user", text, s)),
                               Element("bot", <<>>, s))
          /\ streamController' = s
          /\ streaming' = TRUE
          /\ requests' = [Forget(requests, s, 0) EXCEPT ![s] = @ + 1]
          /\ conn' = [Forget(conn, s, "none") EXCEPT ![s] = "open"]
          /\ pc' = [Forget(pc, s, "returned") EXCEPT ![s] = "fetch"]
  /\ accumulated' = Forget(accumulated, s, <<>>)
  /\ buffer' = Forget(buffer, s, <<>>)
  /\ wire' = Forget(wire, s, <<>>)
  /\ delivered' = Forget(delivered, s, <<>>)
  /\ deltas' = Forget(deltas, s, <<>>)
  /\ appended' = Forget(appended, s, <<>>)
  /\ alerts' = Forget(alerts, s, <<>>)
  /\ cancelAt' = Forget(cancelAt, s, "")
  /\ UNCHANGED emitted

\* sendBtn click
SendClick ==
  /\ Quiescent
  /\ nCalls < MaxSends
  /\ SendAllowed
  /\ \E value \in Inputs : SendMessage(nCalls + 1, value)

\* userInput keydown, Enter without Shift
EnterKey ==
  /\ Quiescent
  /\ nCalls < MaxSends
  /\ SendAllowed
  /\ \E value \in Inputs : SendMessage(nCalls + 1, value)

\* Where abort() leaves a call: a suspended call's awaited promise is
\* rejected; any other call is not touched.
AbortedPc(p) ==
  CASE p = "fetch"   -> "fetch_aborted"
    [] p = "errbody" -> "errbody_aborted"
    [] p = "read"    -> "read_aborted"
    [] OTHER         -> p

\* Mutant: abortStream resets the flags and does not abort the controller.
AbortStreamFlagsOnly(pcNow, wireNow) ==
  /\ pc' = pcNow
  /\ wire' = wireNow
  /\ conn' = conn
  /\ streamController' = 0
  /\ streaming' = FALSE

\* abortStream, run with the calls standing at pcNow and wireNow on the
\* wires; what was on the wire of an aborted connection is discarded.
AbortStream(pcNow, wireNow) ==
  IF streamController # 0
  THEN /\ conn' = [conn EXCEPT ![streamController] =
                     IF @ = "open" THEN "aborted" ELSE @]
       /\ wire' = [wireNow EXCEPT ![streamController] = <<>>]
       /\ pc' = [pcNow EXCEPT ![streamController] = AbortedPc(@)]
       /\ streamController' = 0
       /\ streaming' = FALSE
  ELSE /\ pc' = pcNow
       /\ wire' = wireNow
       /\ UNCHANGED <<conn, streamController, streaming>>

\* cancelBtn click
CancelClick ==
  /\ Quiescent
  /\ AbortStream(pc, wire)
  /\ cancelAt' = IF streamController # 0
                 THEN [cancelAt EXCEPT ![streamController] = pc[streamController]]
                 ELSE cancelAt
  /\ UNCHANGED <<chatHistory, stored, chatBox, nCalls, input, accumulated, buffer,
                 emitted, requests, delivered, deltas, alerts, appended>>

\* The catch block of sendMessage for an error that is no AbortError.
CatchOther(s, to) ==
  /\ alerts' = [alerts EXCEPT ![s] = Append(@, <<"Streaming error: ">>)]
  /\ streaming' = FALSE
  /\ streamController' = 0
  /\ pc' = [pc EXCEPT ![s] = to]

\* Mutant: the alert of the non-success branch ignores the detail.
ServerErrorStatusOnly(s, d) ==
  /\ alerts' = [alerts EXCEPT ![s] = Append(@, <<"Server error: ", "statusText">>)]
  /\ AbortStream([pc EXCEPT ![s] = "error_status"], wire)

\* The non-success branch after res.json() has settled with detail d.
ServerError(s, d) ==
  /\ alerts' = [alerts EXCEPT ![s] =
                  Append(@, <<"Server error: ">> \o
                            (IF Truthy(d) THEN d ELSE <<"statusText">>))]
  /\ AbortStream([pc EXCEPT ![s] = "error_status"], wire)

\* fetch() resolves with a response.
FetchResolves(s, ok) ==
  /\ Quiescent
  /\ pc[s] = "fetch"
  /\ pc' = [pc EXCEPT ![s] = IF ok THEN "read" ELSE "errbody"]
  /\ buffer' = [buffer EXCEPT ![s] = <<>>]
  /\ UNCHANGED <<streaming, streamController, chatHistory, stored, chatBox, nCalls,
                 input, accumulated, conn, wire, emitted, requests, delivered,
                 deltas, alerts, appended, cancelAt>>

\* fetch() rejects: the request could not be completed.
FetchFails(s) ==
  /\ Quiescent
  /\ pc[s] = "fetch"
  /\ conn' = [conn EXCEPT ![s] = "failed"]
  /\ CatchOther(s, "error_transport")
  /\ UNCHANGED <<chatHistory, stored, chatBox, nCalls, input, accumulated, buffer,
                 wire, emitted, requests, delivered, deltas, appended, cancelAt>>

\* res.json() of a non-success response settles.
ErrBodySettles(s, b) ==
  /\ Quiescent
  /\ pc[s] = "errbody"
  /\ ServerError(s, ErrorDetail(b))
  /\ UNCHANGED <<chatHistory, stored, chatBox, nCalls, input, accumulated, buffer,
                 emitted, requests, delivered, deltas, appended, cancelAt>>

\* The server sends a piece of the body.
ServerEmit(s, e) ==
  /\ Quiescent
  /\ pc[s] = "read"
  /\ conn[s] = "open"
  /\ emitted < MaxEmits
  /\ wire' = [wire EXCEPT ![s] = @ \o e]
  /\ emitted' = emitted + 1
  /\ UNCHANGED <<streaming, streamController, chatHistory, stored, chatBox, nCalls,
                 pc, input, accumulated, buffer, conn, requests, delivered, deltas,
                 alerts, appended, cancelAt>>

\* The server ends the response.
ServerClose(s) ==
  /\ Quiescent
  /\ pc[s] \in {"read", "done", "error_thrown"}
  /\ conn[s] = "open"
  /\ conn' = [conn EXCEPT ![s] = "closed"]
  /\ UNCHANGED <<streaming, streamController, chatHistory, stored, chatBox, nCalls,
                 pc, input, accumulated, buffer, wire, emitted, requests, delivered,
                 deltas, alerts, appended, cancelAt>>

\* Mutant: the assistant message is not saved.
SaveAssistantSkipped(h, acc) == h

\* "save assistant message": the history after it.
SaveAssistant(h, acc) ==
  IF Trim(acc) # <<>> THEN Append(h, Message("bot", acc)) ELSE h

\* Mutant: the finalisation leaves the streaming flag set.
FinalizeStaysBusy(s, acc, to) ==
  /\ chatHistory' = SaveAssistant(chatHistory, acc)
  /\ stored' = IF chatHistory' # chatHistory THEN chatHistory' ELSE stored
  /\ appended' = [appended EXCEPT ![s] =
                    IF chatHistory' # chatHistory THEN Append(@, acc) ELSE @]
  /\ streaming' = streaming
  /\ streamController' = 0
  /\ pc' = [pc EXCEPT ![s] = to]

\* The finalisation both the [DONE] branch and the end of the loop perform.
Finalize(s, acc, to) ==
  /\ chatHistory' = SaveAssistant(chatHistory, acc)
  /\ stored' = IF chatHistory' # chatHistory THEN chatHistory' ELSE stored
  /\ appended' = [appended EXCEPT ![s] =
                    IF chatHistory' # chatHistory THEN Append(@, acc) ELSE @]
  /\ streaming' = FALSE
  /\ streamController' = 0
  /\ pc' = [pc EXCEPT ![s] = to]

\* reader.read() resolves with the first k tokens on the wire, and the loop
\* body runs to the next await or to the end of sendMessage.
ReadChunk(s, k) ==
  LET r  == ProcessChunk(buffer[s],
                         PassState(accumulated[s], deltas[s], chatBox, s),
                         SubSeq(wire[s], 1, k))
      st == r.st
      rest == [wire EXCEPT ![s] = SubSeq(@, k + 1, Len(@))]
  IN
  /\ Quiescent
  /\ pc[s] = "read"
  /\ k \in 1..Len(wire[s])
  /\ delivered' = [delivered EXCEPT ![s] = @ \o SubSeq(wire[s], 1, k)]
  /\ buffer' = [buffer EXCEPT ![s] = r.buffer]
  /\ accumulated' = [accumulated EXCEPT ![s] = st.acc]
  /\ deltas' = [deltas EXCEPT ![s] = st.deltas]
  /\ chatBox' = st.box
  /\ CASE st.status = "run" ->
            /\ wire' = rest
            /\ UNCHANGED <<streaming, streamController, chatHistory, stored, pc, conn,
                           alerts, appended>>
       [] st.status = "done" ->
            /\ Finalize(s, st.acc, "done")
            /\ wire' = rest
            /\ UNCHANGED <<conn, alerts>>
       [] st.status = "error" ->
            /\ alerts' = [alerts EXCEPT ![s] = Append(@, <<"Error: ">> \o st.msg)]
            /\ AbortStream([pc EXCEPT ![s] = "error_field"], rest)
            /\ UNCHANGED <<chatHistory, stored, appended>>
       [] st.status = "throw" ->
            /\ CatchOther(s, "error_thrown")
            /\ wire' = rest
            /\ UNCHANGED <<chatHistory, stored, conn, appended>>
  /\ UNCHANGED <<nCalls, input, emitted, requests, cancelAt>>

\* Mutant: the end of the loop does not save the assistant message.
ReadDoneDiscards(s) ==
  /\ Quiescent
  /\ pc[s] = "read"
  /\ wire[s] = <<>>
  /\ conn[s] = "closed"
  /\ streaming' = FALSE
  /\ streamController' = 0
  /\ pc' = [pc EXCEPT ![s] = "eof"]
  /\ UNCHANGED <<chatHistory, stored, appended, chatBox, nCalls, input, accumulated,
                 buffer, conn, wire, emitted, requests, delivered, deltas, alerts,
                 cancelAt>>

\* Mutant: at the end of the response the remainder of the buffer is
\* processed as a last block.
ReadDoneFlushes(s) ==
  LET st == ProcessParts(PassState(accumulated[s], deltas[s], chatBox, s),
                         <<buffer[s]>>)
  IN
  /\ Quiescent
  /\ pc[s] = "read"
  /\ wire[s] = <<>>
  /\ conn[s] = "closed"
  /\ accumulated' = [accumulated EXCEPT ![s] = st.acc]
  /\ deltas' = [deltas EXCEPT ![s] = st.deltas]
  /\ chatBox' = st.box
  /\ Finalize(s, st.acc, "eof")
  /\ UNCHANGED <<nCalls, input, buffer, conn, wire, emitted, requests, delivered,
                 alerts, cancelAt>>

\* reader.read() resolves with done: the response ended and all of it was read.
ReadDone(s) ==
  /\ Quiescent
  /\ pc[s] = "read"
  /\ wire[s] = <<>>
  /\ conn[s] = "closed"
  /\ Finalize(s, accumulated[s], "eof")
  /\ UNCHANGED <<chatBox, nCalls, input, accumulated, buffer, conn, wire, emitted,
                 requests, delivered, deltas, alerts, cancelAt>>

\* Mutant: a transport failure saves the text accumulated so far.
ReadFailsSaves(s) ==
  /\ Quiescent
  /\ pc[s] = "read"
  /\ conn[s] = "open"
  /\ conn' = [conn EXCEPT ![s] = "failed"]
  /\ wire' = [wire EXCEPT ![s] = <<>>]
  /\ CatchOther(s, "error_transport")
  /\ chatHistory' = SaveAssistant(chatHistory, accumulated[s])
  /\ stored' = chatHistory'
  /\ appended' = [appended EXCEPT ![s] =
                    IF chatHistory' # chatHistory THEN Append(@, accumulated[s]) ELSE @]
  /\ UNCHANGED <<chatBox, nCalls, input, accumulated, buffer, emitted, requests,
                 delivered, deltas, cancelAt>>

\* reader.read() rejects: the transport failed in mid-stream.
ReadFails(s) ==
  /\ Quiescent
  /\ pc[s] = "read"
  /\ conn[s] = "open"
  /\ conn' = [conn EXCEPT ![s] = "failed"]
  /\ wire' = [wire EXCEPT ![s] = <<>>]
  /\ CatchOther(s, "error_transport")
  /\ UNCHANGED <<chatHistory, stored, chatBox, nCalls, input, accumulated, buffer,
                 emitted, requests, delivered, deltas, appended, cancelAt>>

\* Mutant: the catch block reports an AbortError like any other error.
CatchAbortReported(s) ==
  /\ CatchOther(s, "cancelled")
  /\ UNCHANGED <<chatHistory, stored, appended>>

\* Mutant: the catch block saves the partial text on an AbortError.
CatchAbortSaves(s) ==
  /\ streaming' = FALSE
  /\ streamController' = 0
  /\ pc' = [pc EXCEPT ![s] = "cancelled"]
  /\ chatHistory' = SaveAssistant(chatHistory, accumulated[s])
  /\ stored' = chatHistory'
  /\ appended' = [appended EXCEPT ![s] =
                    IF chatHistory' # chatHistory THEN Append(@, accumulated[s]) ELSE @]
  /\ UNCHANGED alerts

\* The catch block of sendMessage for an AbortError.
CatchAbort(s) ==
  /\ streaming' = FALSE
  /\ streamController' = 0
  /\ pc' = [pc EXCEPT ![s] = "cancelled"]
  /\ UNCHANGED <<alerts, chatHistory, stored, appended>>

\* The microtask after abort(): the rejected await continues.  At fetch()
\* and at read() the AbortError reaches the catch block; at res.json() the
\* rejection is swallowed by .catch(()=>null) and the non-success branch
\* goes on without a detail.
AbortContinuation(s) ==
  /\ pc[s] \in Pending
  /\ IF pc[s] = "errbody_aborted"
     THEN /\ ServerError(s, <<>>)
          /\ UNCHANGED <<chatHistory, stored, appended>>
     ELSE /\ CatchAbort(s)
          /\ UNCHANGED <<conn, wire>>
  /\ UNCHANGED <<chatBox, nCalls, input, accumulated, buffer, emitted, requests,
                 delivered, deltas, cancelAt>>

\* Mutant: Clear history empties the history in memory only.
ClearHistoryUnsaved(ok) ==
  /\ Quiescent
  /\ IF ok
     THEN /\ chatHistory' = <<>>
          /\ stored' = stored
          /\ chatBox' = RenderChatHistory(chatHistory')
     ELSE UNCHANGED <<chatHistory, stored, chatBox>>
  /\ UNCHANGED <<streaming, streamController, nCalls, pc, input, accumulated,
                 buffer, conn, wire, emitted, requests, delivered, deltas, alerts,
                 appended, cancelAt>>

\* clearHistoryBtn click; ok is the answer to confirm().
ClearHistoryClick(ok) ==
  /\ Quiescent
  /\ IF ok
     THEN /\ chatHistory' = <<>>
          /\ stored' = chatHistory'
          /\ chatBox' = RenderChatHistory(chatHistory')
     ELSE UNCHANGED <<chatHistory, stored, chatBox>>
  /\ UNCHANGED <<streaming, streamController, nCalls, pc, input, accumulated,
                 buffer, conn, wire, emitted, requests, delivered, deltas, alerts,
                 appended, cancelAt>>

\* newChatBtn click; ok is the answer to confirm().
NewChatClick(ok) ==
  /\ Quiescent
  /\ IF ok
     THEN /\ chatHistory' = <<>>
          /\ stored' = chatHistory'
          /\ chatBox' = RenderChatHistory(chatHistory')
     ELSE UNCHANGED <<chatHistory, stored, chatBox>>
  /\ UNCHANGED <<streaming, streamController, nCalls, pc, input, accumulated,
                 buffer, conn, wire, emitted, requests, delivered, deltas, alerts,
                 appended, cancelAt>>

\* Click on an entry of the recent-chats list (one per user message).
RecentChatClick ==
  /\ Quiescent
  /\ \E i \in 1..Len(chatHistory) : chatHistory[i].type = "user"
  /\ chatBox' = RenderChatHistory(chatHistory)
  /\ UNCHANGED <<streaming, streamController, chatHistory, stored, nCalls, pc,
                 input, accumulated, buffer, conn, wire, emitted, requests,
                 delivered, deltas, alerts, appended, cancelAt>>

Next ==
  \/ SendClick
  \/ EnterKey
  \/ CancelClick
  \/ \E s \in Sends, ok \in BOOLEAN : FetchResolves(s, ok)
  \/ \E s \in Sends : FetchFails(s)
  \/ \E s \in Sends, b \in ErrorBodies : ErrBodySettles(s, b)
  \/ \E s \in Sends, e \in Emits : ServerEmit(s, e)
  \/ \E s \in Sends : ServerClose(s)
  \/ \E s \in Sends : \E k \in 1..Len(wire[s]) : ReadChunk(s, k)
  \/ \E s \in Sends : ReadDone(s)
  \/ \E s \in Sends : ReadFails(s)
  \/ \E s \in Sends : AbortContinuation(s)
  \/ \E ok \in BOOLEAN : ClearHistoryClick(ok)
  \/ \E ok \in BOOLEAN : NewChatClick(ok)
  \/ RecentChatClick

Spec == Init /\ [][Next]_vars

\* ================================================================== claims

Kept(s) == pc[s] \notin {"idle", "returned"}

IsBlank(v) == \A i \in 1..Len(v) : v[i] = SP

RECURSIVE Concat(_)
Concat(ss) == IF ss = <<>> THEN <<>> ELSE Head(ss) \o Concat(Tail(ss))

\* ------------------------------------------------------------------- C1
C1_RequestCount ==
  \A s \in Sends :
    Kept(s) =>
      /\ IsBlank(input[s]) <=> pc[s] = "noop"
      /\ requests[s] = IF IsBlank(input[s]) THEN 0 ELSE 1

C1_NoopStep ==
  \A s \in Sends :
    (pc[s] = "idle" /\ IsBlank(input'[s]) /\ pc'[s] # "idle") =>
      /\ UNCHANGED <<streaming, streamController, chatHistory, stored, chatBox>>
      /\ requests'[s] = 0
      /\ conn'[s] = "none"

\* C1: a sendMessage call whose input is empty or only blanks issues no
\* request and changes nothing (no history entry, streaming as it was); a
\* call with other input has issued exactly one request, at every point of
\* its life and whatever its outcome.
C1_OneRequestPerSend == [](C1_RequestCount) /\ [][C1_NoopStep]_vars

\* A call that failed in transport after a server response began: one
\* request, no retry.
C1_Witness ==
  \E s \in Sends :
    /\ pc[s] = "error_transport"
    /\ input[s] = <<SP, "q", SP>>
    /\ requests[s] = 1
    /\ delivered[s] # <<>>

\* ------------------------------------------------------------------- C2
\* The whole text the reads have returned, handed over by one read.
OneChunk(s) ==
  ProcessChunk(<<>>, PassState(<<>>, <<>>, <<>>, s), delivered[s])

EndOfPass(s) ==
  CASE pc[s] = "done"         -> "done"
    [] pc[s] = "error_field"  -> "error"
    [] pc[s] = "error_thrown" -> "throw"
    [] OTHER                  -> "run"

\* C2: chunk-boundary invariance.  However the body was cut into the chunks
\* the reads returned, the deltas forwarded, the accumulated text, the text
\* left in the buffer and the way the stream ended are those of the same
\* text delivered by one read.
C2_ChunkBoundaryInvariance ==
  \A s \in Sends :
    LET one == OneChunk(s) IN
    /\ deltas[s] = one.st.deltas
    /\ accumulated[s] = one.st.acc
    /\ EndOfPass(s) = one.st.status
    /\ pc[s] = "read" => buffer[s] = one.buffer

\* After a delta, a read has ended between the two newlines of a separator.
C2_Witness ==
  \E s \in Sends :
    /\ pc[s] = "read"
    /\ deltas[s] # <<>>
    /\ Len(buffer[s]) >= 2
    /\ buffer[s][Len(buffer[s])] = NL
    /\ wire[s] # <<>> /\ Head(wire[s]) = NL

\* ------------------------------------------------------------------- C3
\* C3 as claimed: at every point of a stream that has forwarded a delta, the
\* accumulated text is the concatenation of the deltas, the last bot message
\* of the chat box shows it, and a persisted bot message holds it.
C3_DisplayedIsAccumulated ==
  \A s \in Sends :
    (pc[s] = "read" /\ deltas[s] # <<>>) =>
      /\ accumulated[s] = Concat(deltas[s])
      /\ \A i \in 1..Len(appended[s]) : appended[s][i] = accumulated[s]
      /\ BotPositions(chatBox) # {}
      /\ chatBox[LastBot(chatBox)].text = accumulated[s]

\* ------------------------------------------------------------------- C4
C4_Outcome ==
  \A s \in Sends :
    cancelAt[s] \in {"fetch", "read"} =>
      /\ pc[s] \in {"fetch_aborted", "read_aborted", "cancelled"}
      /\ alerts[s] = <<>>
      /\ conn[s] \in {"aborted", "closed"}
      /\ pc[s] = "cancelled" =>
           /\ ~streaming
           /\ streamController = 0
           /\ nCalls < MaxSends => ENABLED SendClick

C4_NextStep ==
  \A s \in Sends :
    pc[s] \in {"fetch_aborted", "read_aborted"} => pc'[s] = "cancelled"

\* C4: a Cancel click while a call waits for fetch() (Sending) or for a read
\* (Streaming) ends that call in the AbortError branch at its next step,
\* with no alert and its connection aborted; the client is then idle
\* (streaming false, no controller) and the send button's handler accepts a
\* new call.
C4_CancelEndsAsCancelled == [](C4_Outcome) /\ [][C4_NextStep]_vars

\* A call cancelled in mid-stream, after text had arrived, has ended.
C4_Witness ==
  \E s \in Sends :
    /\ cancelAt[s] = "read"
    /\ pc[s] = "cancelled"
    /\ accumulated[s] # <<>>
    /\ nCalls < MaxSends

\* ------------------------------------------------------------------- C5
\* C5: at most one sendMessage call is in flight (between its fetch and its
\* return) in every reachable state.
C5_AtMostOneActive == Cardinality({s \in Sends : InFlight(s)}) <= 1

\* A second call streams after the first has returned.
C5_Witness ==
  /\ nCalls = 2
  /\ pc[1] = "returned"
  /\ pc[2] = "read"
  /\ streaming
  /\ streamController = 2

\* ------------------------------------------------------------------- C6
C6_Silent ==
  \A s \in Sends :
    (cancelAt[s] # "" /\ cancelAt'[s] # "") =>
      /\ accumulated'[s] = accumulated[s]
      /\ deltas'[s] = deltas[s]
      /\ appended'[s] = appended[s]
      /\ delivered'[s] = delivered[s]

\* C6: once a Cancel click has aborted a call, no step appends a delta to its
\* accumulated text, forwards a delta to the chat box, reads more of its body
\* or appends a bot message of it to the history.
C6_NoEventAfterCancel == [][C6_Silent]_vars

\* A call cancelled while part of a block sat in its buffer has ended
\* without having used it.
C6_Witness ==
  \E s \in Sends :
    /\ cancelAt[s] = "read"
    /\ pc[s] = "cancelled"
    /\ buffer[s] # <<>>
    /\ deltas[s] # <<>>
    /\ appended[s] = <<>>

\* ------------------------------------------------------------------- C7
\* The lines of the complete blocks of a text, in order, markers stripped.
AllLines(d) ==
  LET parts == CompleteParts(SplitBlocks(d, <<>>)) IN
  Concat([i \in 1..Len(parts) |-> LinesOf(parts[i])])

Decoded(l) == l # <<>> /\ Trim(l) # <<DONE>> /\ Parses(l)

CarriesError(l) == Decoded(l) /\ JsonValue(Trim(l)[1]).hasError

CarriesMessage(l) == Decoded(l) /\ JsonValue(Trim(l)[1]).error # <<>>

Stops(l) ==
  \/ l # <<>> /\ Trim(l) = <<DONE>>
  \/ Decoded(l) /\ JsonValue(Trim(l)[1]).isNull
  \/ CarriesMessage(l)

\* The line at which the loop over L ends, Len(L) + 1 if it falls through.
FirstStop(L) ==
  IF \E i \in 1..Len(L) : Stops(L[i])
  THEN CHOOSE i \in 1..Len(L) : Stops(L[i]) /\ \A j \in 1..(i - 1) : ~Stops(L[j])
  ELSE Len(L) + 1

\* What one line adds to the accumulated text.
Contribution(l) ==
  IF l = <<>> THEN <<>>
  ELSE IF ~Parses(l) THEN l
  ELSE LET obj == JsonValue(Trim(l)[1]) IN
       IF obj.chunk # <<>> THEN obj.chunk ELSE obj.partial

TextBefore(L, n) == Concat([i \in 1..(n - 1) |-> Contribution(L[i])])

\* C7 as claimed: a processed line that decodes to an object with an error
\* field, whatever its value, ends the call as errored with one alert.
C7_AnyErrorFieldTerminates ==
  \A s \in Sends :
    LET L == AllLines(delivered[s])
        n == FirstStop(L)
    IN (\E i \in 1..Len(L) : i <= n /\ CarriesError(L[i])) =>
         pc[s] = "error_field" /\ Len(alerts[s]) = 1

\* C7, amended: a processed line that decodes to an object with a non-empty
\* error field ends the call as errored, with exactly one alert, of that
\* message; the accumulated text is that of the lines before it, whatever
\* follows it in the text already read, and it never changes afterwards.
C7_State ==
  \A s \in Sends :
    LET L == AllLines(delivered[s])
        n == FirstStop(L)
    IN /\ (n <= Len(L) /\ CarriesMessage(L[n])) <=> pc[s] = "error_field"
       /\ pc[s] = "error_field" =>
            /\ alerts[s] = << <<"Error: ">> \o JsonValue(Trim(L[n])[1]).error >>
            /\ accumulated[s] = TextBefore(L, n)
            /\ Concat(deltas[s]) = TextBefore(L, n)

C7_Frozen ==
  \A s \in Sends :
    (pc[s] = "error_field" /\ pc'[s] = "error_field") =>
      /\ accumulated'[s] = accumulated[s]
      /\ deltas'[s] = deltas[s]
      /\ alerts'[s] = alerts[s]

C7_ErrorLineTerminates == [](C7_State) /\ [][C7_Frozen]_vars

\* An error line ended the call although a block with text came after it in
\* the same read.
C7_Witness ==
  \E s \in Sends :
    LET L == AllLines(delivered[s])
        n == FirstStop(L)
    IN /\ pc[s] = "error_field"
       /\ \E j \in 1..Len(L) : j > n /\ Contribution(L[j]) # <<>>

\* ------------------------------------------------------------------- C8
NonBlank(t) == \E i \in 1..Len(t) : t[i] # SP

Completed(s) == pc[s] \in {"done", "eof"}

C8_State ==
  \A s \in Sends :
    /\ InFlight(s) => appended[s] = <<>>
    /\ (Completed(s) /\ NonBlank(accumulated[s])) =>
         appended[s] = <<accumulated[s]>>

C8_Step ==
  \A s \in Sends :
    (pc[s] = "read" /\ Completed(s)' /\ NonBlank(accumulated'[s])) =>
      /\ chatHistory' = Append(chatHistory, Message("bot", accumulated'[s]))
      /\ stored' = chatHistory'

\* C8: a call that reaches [DONE] or the clean end of the response with
\* text that is not blank appends one bot message to chatHistory, holding
\* the final accumulated text, in the step of that event: none while the
\* call is in flight, and no second one.
C8_OneBotMessageOnCompletion == [](C8_State) /\ [][C8_Step]_vars

\* A call completed by [DONE] after two deltas.
C8_Witness ==
  \E s \in Sends :
    /\ pc[s] = "done"
    /\ Len(deltas[s]) = 2
    /\ appended[s] = <<accumulated[s]>>
    /\ chatHistory # <<>>
    /\ chatHistory[Len(chatHistory)] = Message("bot", accumulated[s])

\* ------------------------------------------------------------------- C9
\* C9 as claimed: a call cancelled after a delta has appended its partial
\* text to chatHistory, once.
C9_PartialPersistedOnCancel ==
  \A s \in Sends :
    (pc[s] = "cancelled" /\ deltas[s] # <<>>) => appended[s] = <<accumulated[s]>>

C9_State ==
  \A s \in Sends :
    (pc[s] = "cancelled" /\ deltas[s] # <<>>) => appended[s] = <<>>

C9_Step ==
  \A s \in Sends :
    (pc[s] \in Pending /\ pc'[s] = "cancelled") =>
      UNCHANGED <<chatHistory, stored, chatBox>>

\* C9, amended: a call cancelled after a delta persists nothing: the step
\* that ends it leaves chatHistory and its stored copy as they were, and no
\* bot message of the call is in the history; the partial text stays in the
\* chat box only.
C9_CancelPersistsNothing == [](C9_State) /\ [][C9_Step]_vars

\* A call cancelled after a delta has ended; the history ends with its user
\* message and the chat box still shows the partial text.
C9_Witness ==
  \E s \in Sends :
    /\ pc[s] = "cancelled"
    /\ deltas[s] # <<>>
    /\ chatHistory # <<>>
    /\ chatHistory[Len(chatHistory)].type = "user"
    /\ BotPositions(chatBox) # {}
    /\ chatBox[LastBot(chatBox)].text = accumulated[s]

\* ------------------------------------------------------------------ C10
\* C10 as claimed: the connection of a call that has ended has been aborted
\* or closed.
C10_ConnectionReleased ==
  \A s \in Sends :
    pc[s] \in Terminal => conn[s] \in {"aborted", "closed", "failed"}

\* ------------------------------------------------------------------ C11
\* What a body of complete blocks with the lines ls leaves behind when the
\* loop runs over all of them: the accumulated text and the bot messages
\* "save assistant message" appends for it.
ContentRun(s, ls) == ProcessLines(PassState(<<>>, <<>>, <<>>, s), ls)

SavedFor(acc) == IF NonBlank(acc) THEN <<acc>> ELSE <<>>

\* C11: a body of complete content blocks closed by a [DONE] block and the
\* same body closed by the end of the connection (nothing left in the
\* buffer) end alike.  With C the
\* content lines (all lines of the body when the connection just closes, the
\* lines before [DONE] otherwise), the accumulated text is that of a run over
\* C, the history append is the one saved for that text, and there is no
\* alert, on both ways out.
C11_DoneAndCloseAgree ==
  \A s \in Sends :
    (Completed(s) /\ (pc[s] = "eof" => buffer[s] = <<>>)) =>
      LET L == AllLines(delivered[s])
          n == FirstStop(L)
          C == SubSeq(L, 1, n - 1)
      IN /\ pc[s] = "done" => (n <= Len(L) /\ Trim(L[n]) = <<DONE>>)
         /\ pc[s] = "eof" => n = Len(L) + 1
         /\ ContentRun(s, C).status = "run"
         /\ accumulated[s] = ContentRun(s, C).acc
         /\ appended[s] = SavedFor(ContentRun(s, C).acc)
         /\ alerts[s] = <<>>

\* A call ended by [DONE] after a content block whose text it saved.
C11_Witness ==
  \E s \in Sends :
    /\ pc[s] = "done"
    /\ delivered[s] = Block(<<Marker, SP, "x">>) \o Block(<<Marker, SP, DONE>>)
    /\ appended[s] = << <<"x">> >>

\* ------------------------------------------------------------------ C12
\* The lines of the claim: empty, not decodable, or decoding to an object
\* with one of the two text fields.
ChunkOnly(l) ==
  /\ Decoded(l)
  /\ JsonValue(Trim(l)[1]).chunk # <<>>
  /\ JsonValue(Trim(l)[1]).partial = <<>>

PartialOnly(l) ==
  /\ Decoded(l)
  /\ JsonValue(Trim(l)[1]).partial # <<>>
  /\ JsonValue(Trim(l)[1]).chunk = <<>>

Undecodable(l) == l # <<>> /\ Trim(l) # <<DONE>> /\ ~Parses(l)

\* What the claim says such a line contributes.
Claimed(l) ==
  IF ChunkOnly(l) THEN JsonValue(Trim(l)[1]).chunk
  ELSE IF PartialOnly(l) THEN JsonValue(Trim(l)[1]).partial
  ELSE IF Undecodable(l) THEN l
  ELSE <<>>

Interpreted(l) == l = <<>> \/ Undecodable(l) \/ ChunkOnly(l) \/ PartialOnly(l)

\* C12: per-line interpretation.  The accumulated text of a call is that of
\* the loop run over the lines it has processed, and in that run each line,
\* its marker stripped, adds exactly: the chunk value when it decodes to an
\* object with a chunk field, the partial value when it decodes to an object
\* with a partial field, its own text when it is not decodable, and nothing
\* when it is empty; a non-empty addition is forwarded as one delta.
C12_PerLineContribution ==
  \A s \in Sends :
    LET L == AllLines(delivered[s])
        n == FirstStop(L)
    IN /\ accumulated[s] = ContentRun(s, SubSeq(L, 1, n - 1)).acc
       /\ deltas[s] = ContentRun(s, SubSeq(L, 1, n - 1)).deltas
       /\ \A i \in 1..(n - 1) :
            Interpreted(L[i]) =>
              LET before == ContentRun(s, SubSeq(L, 1, i - 1))
                  after  == ContentRun(s, SubSeq(L, 1, i))
              IN /\ after.acc = before.acc \o Claimed(L[i])
                 /\ after.deltas = IF Claimed(L[i]) = <<>> THEN before.deltas
                                   ELSE Append(before.deltas, Claimed(L[i]))

\* A call has processed an empty line, a chunk line and a partial line of
\* one block.
C12_Witness ==
  \E s \in Sends :
    /\ AllLines(delivered[s]) = << <<>>, <<"{chunk:a}">>, <<"{partial:b}">> >>
    /\ deltas[s] = << <<"a">>, <<"b">> >>
    /\ accumulated[s] = <<"a", "b">>

\* ------------------------------------------------------------------ C13
Sentinel(l) == l # <<>> /\ Trim(l) = <<DONE>>

\* C13 as claimed: decode leniency.  A call none of whose lines carries an
\* error field or is the [DONE] sentinel has not been ended by a line: it
\* is neither done, nor errored by a line, nor reported as failed for an
\* exception raised while a line was processed.
C13_LenientDecoding ==
  \A s \in Sends :
    LET L == AllLines(delivered[s]) IN
    (\A i \in 1..Len(L) : ~CarriesError(L[i]) /\ ~Sentinel(L[i])) =>
      /\ pc[s] \notin {"done", "error_field", "error_thrown"}
      /\ \A j \in 1..Len(alerts[s]) : alerts[s][j] # <<"Streaming error: ">>
           \/ pc[s] = "error_transport"

\* ------------------------------------------------------------------ C14
ServerErrorAlert(text) == << <<"Server error: ">> \o text >>

C14_State ==
  \A s \in Sends :
    /\ pc[s] \in {"errbody", "errbody_aborted", "error_status"} =>
         /\ delivered[s] = <<>>
         /\ deltas[s] = <<>>
         /\ accumulated[s] = <<>>
         /\ appended[s] = <<>>
    /\ pc[s] \in {"errbody", "errbody_aborted"} => alerts[s] = <<>>
    /\ pc[s] = "error_status" =>
         /\ alerts[s] \in {ServerErrorAlert(<<"detail">>),
                           ServerErrorAlert(<<"statusText">>)}
         /\ ~streaming
         /\ streamController = 0

C14_Step ==
  \A s \in Sends :
    /\ pc[s] = "errbody" => pc'[s] \in {"errbody", "errbody_aborted", "error_status"}
    /\ pc[s] = "errbody_aborted" => pc'[s] = "error_status"
    /\ (pc[s] # "error_status" /\ pc'[s] = "error_status") =>
         /\ pc[s] \in {"errbody", "errbody_aborted"}
         /\ UNCHANGED <<chatHistory, stored, chatBox>>
    /\ \A b \in ErrorBodies :
         ErrBodySettles(s, b) =>
           alerts'[s] = ServerErrorAlert(IF b = "detail" THEN <<"detail">>
                                         ELSE <<"statusText">>)

\* C14: a response with a non-success status takes the call from its fetch
\* to the error outcome without a read of the body stream: nothing is
\* delivered, no delta is forwarded, nothing is accumulated and no bot
\* message is appended; the one alert holds the detail of the error body
\* when the body has one, the status text otherwise, and the client is idle.
C14_StatusErrorSkipsStreaming == [](C14_State) /\ [][C14_Step]_vars

\* A call has ended on a non-success status with the server's detail.
C14_Witness ==
  \E s \in Sends :
    /\ pc[s] = "error_status"
    /\ alerts[s] = ServerErrorAlert(<<"detail">>)
    /\ conn[s] = "aborted"
    /\ chatHistory # <<>>
    /\ chatHistory[Len(chatHistory)].type = "user"

\* ------------------------------------------------------------------ C15
\* The network eventually answers a request, settles the read of an error
\* body, and closes or breaks an open response; the runtime resolves a read
\* when data or the end of the response is there, and runs a pending
\* continuation.
NetworkAnswers == \E s \in Sends : (\E ok \in BOOLEAN : FetchResolves(s, ok)) \/ FetchFails(s)

NetworkSettlesBody == \E s \in Sends, b \in ErrorBodies : ErrBodySettles(s, b)

NetworkEnds == \E s \in Sends : pc[s] = "read" /\ (ServerClose(s) \/ ReadFails(s))

ReadResolves ==
  \E s \in Sends : ReadDone(s) \/ (\E k \in 1..Len(wire[s]) : ReadChunk(s, k))

ContinuationRuns == \E s \in Sends : AbortContinuation(s)

\* The states in which a read can resolve: ENABLED <<ReadResolves>>_vars.
ReadReady ==
  \E s \in Sends :
    Quiescent /\ pc[s] = "read" /\ (wire[s] # <<>> \/ conn[s] = "closed")

\* Weak fairness of each of the five; that of ReadResolves is written out
\* with ReadReady for its enabling condition.
LiveSpec ==
  /\ Spec
  /\ WF_vars(NetworkAnswers)
  /\ WF_vars(NetworkSettlesBody)
  /\ WF_vars(NetworkEnds)
  /\ WF_vars(ContinuationRuns)
  /\ ([]<>(~ReadReady) \/ []<><<ReadResolves>>_vars)

C15_Ends == \A s \in Sends : InFlight(s) ~> (pc[s] \in Terminal)

C15_IdleAtExit ==
  \A s \in Sends :
    (InFlight(s) /\ pc'[s] \in Terminal) => (~streaming' /\ streamController' = 0)

\* C15: every call that has issued its request reaches a terminal outcome
\* (done, end of response, cancelled, or one of the errors) when the network
\* eventually answers, delivers, closes or fails; and the step that ends the
\* call leaves the client idle: streaming false, streamController null.
C15_EverySendEnds == C15_Ends /\ [][C15_IdleAtExit]_vars

\* A call has ended at the close of the response after text, client idle.
C15_Witness ==
  \E s \in Sends :
    /\ pc[s] = "eof"
    /\ deltas[s] # <<>>
    /\ conn[s] = "closed"
    /\ ~streaming
    /\ streamController = 0

\* ------------------------------------------------------------------ C16
Errored(s) ==
  pc[s] \in {"error_status", "error_field", "error_transport", "error_thrown"}

\* The history is the one the call's user message ended, or was cleared since.
EndsWithUserMessageOf(s) ==
  \/ chatHistory = <<>>
  \/ chatHistory[Len(chatHistory)] = Message("user", Trim(input[s]))

C16_State ==
  \A s \in Sends :
    (InFlight(s) \/ Errored(s)) =>
      /\ appended[s] = <<>>
      /\ EndsWithUserMessageOf(s)
      /\ stored = chatHistory

C16_Step ==
  \A s \in Sends :
    (InFlight(s) /\ Errored(s)') => UNCHANGED <<chatHistory, stored>>

\* C16: a call that ends as errored (an error field, a non-success status, a
\* transport failure, an exception) appends no bot message: the step that
\* ends it leaves chatHistory and its stored copy as they were, and the
\* history still ends with the call's user message (or is empty, if it was
\* cleared meanwhile), whatever text had been accumulated.
C16_ErrorPersistsNothing == [](C16_State) /\ [][C16_Step]_vars

\* A call has ended on an error line after text had been accumulated.
C16_Witness ==
  \E s \in Sends :
    /\ pc[s] = "error_field"
    /\ accumulated[s] # <<>>
    /\ chatHistory # <<>>
    /\ chatHistory[Len(chatHistory)] = Message("user", <<"q">>)
    /\ BotPositions(chatBox) # {}
    /\ chatBox[LastBot(chatBox)].text = accumulated[s]

\* ------------------------------------------------------------------ C17
C17_Stored == stored = chatHistory

\* Every change of the history is one message appended or the history
\* emptied, and the stored copy follows in the same step.
C17_Step ==
  chatHistory' # chatHistory =>
    /\ \/ chatHistory' = <<>>
       \/ /\ Len(chatHistory') = Len(chatHistory) + 1
          /\ SubSeq(chatHistory', 1, Len(chatHistory)) = chatHistory
    /\ stored' = chatHistory'

BothFields(l) ==
  /\ Decoded(l)
  /\ ~JsonValue(Trim(l)[1]).isNull
  /\ JsonValue(Trim(l)[1]).error = <<>>
  /\ JsonValue(Trim(l)[1]).chunk # <<>>
  /\ JsonValue(Trim(l)[1]).partial # <<>>

\* What the processed line i of call s has added to the accumulated text.
AddedBy(s, L, i) ==
  LET before == ContentRun(s, SubSeq(L, 1, i - 1)).acc
      after  == ContentRun(s, SubSeq(L, 1, i)).acc
  IN SubSeq(after, Len(before) + 1, Len(after))

\* C18 as claimed: an object with a chunk and a partial field, both not
\* empty, adds both texts to the accumulated text, chunk first.
C18_BothAppended ==
  \A s \in Sends :
    LET L == AllLines(delivered[s])
        n == FirstStop(L)
    IN \A i \in 1..(n - 1) :
         BothFields(L[i]) =>
           AddedBy(s, L, i) = JsonValue(Trim(L[i])[1]).chunk \o
                              JsonValue(Trim(L[i])[1]).partial

\* C18, amended: an object with a chunk and a partial field, both not empty,
\* adds the chunk text alone, as one delta; the partial text is ignored.
C18_ChunkTakesPrecedence ==
  \A s \in Sends :
    LET L == AllLines(delivered[s])
        n == FirstStop(L)
    IN /\ accumulated[s] = ContentRun(s, SubSeq(L, 1, n - 1)).acc
       /\ \A i \in 1..(n - 1) :
            BothFields(L[i]) =>
              /\ AddedBy(s, L, i) = JsonValue(Trim(L[i])[1]).chunk
              /\ ContentRun(s, SubSeq(L, 1, i)).deltas =
                   Append(ContentRun(s, SubSeq(L, 1, i - 1)).deltas,
                          JsonValue(Trim(L[i])[1]).chunk)

\* A call has processed an object with both fields and holds the chunk text.
C18_Witness ==
  \E s \in Sends :
    /\ delivered[s] = Block(<<Marker, SP, "{chunk:a,partial:b}">>)
    /\ accumulated[s] = <<"a">>
    /\ deltas[s] = << <<"a">> >>

\* ------------------------------------------------------------------ C19
\* C19: under any interleaving of sends, cancels, network events and
\* continuations, a call that has issued its request and has neither ended
\* nor been cancelled owns the shared flags: streaming is true and
\* streamController is its controller, so Cancel aborts it and the send
\* handlers refuse a further call.  The continuation of an earlier,
\* cancelled call runs before a later call can be made and so never resets
\* the flags of a later call.
C19_FlagsDescribeActiveSend ==
  \A s \in Sends :
    pc[s] \in Suspended =>
      /\ streaming
      /\ streamController = s
      /\ ~ENABLED SendClick
      /\ \A t \in Sends \ {s} : ~InFlight(t)

\* A second call waits for its response after the first ended without a bot
\* message; the flags are those of the second.
C19_Witness ==
  /\ nCalls = 2
  /\ pc[1] = "returned"
  /\ pc[2] = "fetch"
  /\ streaming
  /\ streamController = 2
  /\ Len(chatHistory) = 2
  /\ chatHistory[1].type = "user"
  /\ chatHistory[2].type = "user"

\* ------------------------------------------------------------------ C20
\* The text delivered to call s without the remainder left in its buffer,
\* and the run of the loop over it.
Terminated(s) == SubSeq(delivered[s], 1, Len(delivered[s]) - Len(buffer[s]))

TerminatedRun(s) == ProcessChunk(<<>>, PassState(<<>>, <<>>, <<>>, s), Terminated(s))

C20_State ==
  \A s \in Sends :
    (pc[s] = "eof" /\ buffer[s] # <<>>) =>
      /\ delivered[s] = Terminated(s) \o buffer[s]
      /\ TerminatedRun(s).buffer = <<>>
      /\ accumulated[s] = TerminatedRun(s).st.acc
      /\ deltas[s] = TerminatedRun(s).st.deltas
      /\ appended[s] = SavedFor(TerminatedRun(s).st.acc)

C20_Step ==
  \A s \in Sends :
    (pc[s] = "read" /\ pc'[s] = "eof") =>
      /\ accumulated'[s] = accumulated[s]
      /\ deltas'[s] = deltas[s]
      /\ buffer'[s] = buffer[s]
      /\ chatBox' = chatBox

\* C20: only blocks closed by a blank line are interpreted.  When the
\* response ends with text left in the buffer (a last block without its
\* blank line, be it a data line or the [DONE] sentinel), that text is
\* dropped: the accumulated text, the deltas and the saved bot message are
\* those of the delivered text without it, and the step that ends the call
\* forwards nothing.
C20_RemainderDiscarded == [](C20_State) /\ [][C20_Step]_vars

\* A response ended after a text block and an unterminated [DONE] line.
C20_Witness ==
  \E s \in Sends :
    /\ pc[s] = "eof"
    /\ buffer[s] = <<Marker, SP, DONE, NL>>
    /\ accumulated[s] = <<"x">>
    /\ appended[s] = << <<"x">> >>

\* ------------------------------------------------------------------ C21
UserMessageOf(s) == Message("user", Trim(input[s]))

\* The history of a call that has issued its request: it ends with the
\* call's user message, or with that message and the call's bot message
\* after it; Clear history and New chat alone take the user message out
\* again (the history is then empty, or holds the bot message only).
C21_State ==
  \A s \in Sends :
    (InFlight(s) \/ pc[s] \in Terminal) =>
      /\ requests[s] = 1
      /\ Trim(input[s]) # <<>>
      /\ stored = chatHistory
      /\ \/ chatHistory = <<>>
         \/ /\ appended[s] = <<>>
            /\ chatHistory[Len(chatHistory)] = UserMessageOf(s)
         \/ /\ appended[s] # <<>>
            /\ chatHistory[Len(chatHistory)] = Message("bot", accumulated[s])
            /\ Len(chatHistory) = 1 \/ chatHistory[Len(chatHistory) - 1] = UserMessageOf(s)

C21_Step ==
  /\ \A s \in Sends :
       (pc[s] = "idle" /\ pc'[s] = "fetch") =>
         /\ requests[s] = 0 /\ requests'[s] = 1
         /\ chatHistory' = Append(chatHistory, Message("user", Trim(input'[s])))
         /\ stored' = chatHistory'
  /\ (Len(chatHistory') > Len(chatHistory) /\ chatHistory'[Len(chatHistory')].type = "user") =>
       \E s \in Sends : pc[s] = "idle" /\ pc'[s] = "fetch"
  /\ \A s \in Sends :
       ((InFlight(s) \/ pc[s] \in Terminal) /\ chatHistory' # chatHistory) =>
         \/ chatHistory' = <<>>
         \/ pc'[s] = "returned"
         \/ chatHistory' = Append(chatHistory, Message("bot", accumulated'[s]))

=============================================================================
